---- MODULE Spec2Model ----
(***************************************************************************)
(* Face-verification backend: the descriptor matching engine               *)
(* (routes/verification.js) and the per-student verification state         *)
(* (routes/student.js, models/Student.js, models/School.js).               *)
(*                                                                         *)
(* Numbers.  Descriptor components are integers in tenths (One = 1.0).     *)
(* A Euclidean distance sqrt(s)/One is carried exactly, as the radicand s: *)
(* Sqrt(s).  A confidence (1 - d) * 100 is carried exactly as the radicand *)
(* of the distance it was computed from: Pct(s) = 100 * (1 - sqrt(s)/One). *)
(* Comparisons and roundings are computed exactly on these forms.          *)
(***************************************************************************)
EXTENDS Integers, Sequences, FiniteSets, TLC

VARIABLES
  student,     \* the Student document (models/Student.js), or absent
  school,      \* the School document (models/School.js)
  now,         \* logical clock behind `new Date()`
  tasks,       \* the setImmediate extraction callbacks, in order of issue
  last,        \* the last request handled and its response
  desc1,       \* harness: first argument of euclideanDistance / the probe
  refs,        \* harness: groupDescriptors argument of findBestMatch
  thr,         \* harness: threshold argument of findBestMatch
  ret          \* harness: value returned by the last call

vars == <<student, school, now, tasks, last, desc1, refs, thr, ret>>
machineVars == <<student, school, now, tasks, last>>
harnessVars == <<desc1, refs, thr, ret>>

(***************************************************************************)
(* Bounds of the model                                                     *)
(***************************************************************************)
MaxRefs == 2        \* longest groupDescriptors array explored
MaxClock == 2       \* number of state-changing requests explored
MaxSchoolClock == 5 \* number of steps explored in the school's own life
MaxFairClock == 4   \* number of steps explored under the fair event loop
MaxBatchClock == 3  \* number of steps explored around a batch verification

(***************************************************************************)
(* Program constants                                                       *)
(***************************************************************************)
One == 10                        \* the literal 1 in `1 - distance`, in tenths
VERIFICATION_THRESHOLD == 6      \* CONFIG.VERIFICATION_THRESHOLD = 0.6
DescriptorLength == 128          \* student.faceDescriptor.length === 128
Days == 1..6                     \* day1 .. day6

(***************************************************************************)
(* JavaScript values                                                       *)
(***************************************************************************)
Arr(s) == [type |-> "array", v |-> s]
Undefined == [type |-> "undefined", v |-> <<>>]
Num(n) == [type |-> "number", n |-> n]
NoNum == [type |-> "undefined", n |-> 0]
Str(n) == [type |-> "string", n |-> n]

\* the element of a one-element set
Only(S) == CHOOSE x \in S : TRUE

Sqrt(s) == [k |-> "sqrt", sq |-> s]
Infinity == [k |-> "Infinity", sq |-> 0]
Null == [k |-> "null", sq |-> 0]
Throw == [k |-> "throw", sq |-> 0]
Pct(s) == [k |-> "pct", sq |-> s]
Zero == Pct(One * One)
Fixed4(n) == [k |-> "fixed4", sq |-> n]

\* a descriptor of length n whose leading components are head, the rest 0
Emb(head, n) == [i \in 1..n |-> IF i <= Len(head) THEN head[i] ELSE 0]

(***************************************************************************)
(* routes/verification.js: euclideanDistance                               *)
(***************************************************************************)
\* mutant: only positive differences are accumulated
RECURSIVE reduceSumSq_oneSided(_, _, _, _)
reduceSumSq_oneSided(a, b, lo, hi) ==
  IF lo > hi THEN 0
  ELSE IF lo = hi
  THEN (IF a[lo] > b[lo] THEN (a[lo] - b[lo]) * (a[lo] - b[lo]) ELSE 0)
  ELSE LET mid == (lo + hi) \div 2 IN
       reduceSumSq_oneSided(a, b, lo, mid)
         + reduceSumSq_oneSided(a, b, mid + 1, hi)

\* desc1.reduce((sum, val, i) => sum + Math.pow(val - desc2[i], 2), 0) over the
\* indices lo..hi; the sum is exact, so it is split in halves to keep the
\* evaluation shallow
RECURSIVE reduceSumSq(_, _, _, _)
reduceSumSq(a, b, lo, hi) ==
  IF lo > hi THEN 0
  ELSE IF lo = hi THEN (a[lo] - b[lo]) * (a[lo] - b[lo])
  ELSE LET mid == (lo + hi) \div 2 IN
       reduceSumSq(a, b, lo, mid) + reduceSumSq(a, b, mid + 1, hi)

\* mutant: no length check, the sum runs over the common prefix
euclideanDistance_truncating(d1, d2) ==
  IF d1.type # "array" \/ d2.type # "array" THEN Throw
  ELSE LET n == IF Len(d1.v) < Len(d2.v) THEN Len(d1.v) ELSE Len(d2.v)
       IN Sqrt(reduceSumSq(d1.v, d2.v, 1, n))

euclideanDistance(d1, d2) ==
  IF d1.type # "array" \/ d2.type # "array" \/ Len(d1.v) # Len(d2.v)
  THEN Throw
  ELSE Sqrt(reduceSumSq(d1.v, d2.v, 1, Len(d1.v)))

(***************************************************************************)
(* Exact arithmetic on distances and confidences                           *)
(***************************************************************************)
\* mutant: the comparison is not strict
Less_orEqual(d, t) == t > 0 /\ d.sq <= t * t

\* `distance < threshold`, distance = sqrt(d.sq), threshold t (tenths)
Less(d, t) == t > 0 /\ d.sq < t * t

\* mutant: every comparable member replaces the best so far
LessDist_always(d, best) == TRUE

\* `distance < bestDistance`
LessDist(d, best) == best.k = "Infinity" \/ d.sq < best.sq

\* Math.max(0, c) of a confidence c = 100 * (1 - sqrt(c.sq)/One)
MathMax0(c) == IF c.sq >= One * One THEN Zero ELSE c

\* floor(sqrt(x)) by bisection
RECURSIVE isqrt(_, _, _)
isqrt(x, lo, hi) ==
  IF lo >= hi THEN lo
  ELSE LET mid == (lo + hi + 1) \div 2 IN
       IF mid * mid <= x THEN isqrt(x, mid, hi) ELSE isqrt(x, lo, mid - 1)

\* ceiling(sqrt(x))
ceilSqrt(x) == LET r == isqrt(x, 0, 46340) IN IF r * r = x THEN r ELSE r + 1

\* Math.round(c) = floor(c + 0.5) for c = 100 - 100 * sqrt(c.sq) / One:
\* floor((201 - sqrt(40000 * c.sq / One^2)) / 2)
MathRound(c) == (201 - ceilSqrt((40000 * c.sq) \div (One * One))) \div 2

\* parseFloat(d.toFixed(4)): the distance in units of 1/10000
toFixed4(d) == Fixed4((isqrt(4000000 * d.sq, 0, 46340) + 1) \div 2)

(***************************************************************************)
(* routes/verification.js: findBestMatch                                   *)
(***************************************************************************)
\* the for-loop with its try/catch; acc = [bestDistance, bestMatch]
RECURSIVE bestLoop(_, _, _, _, _)
bestLoop(capturedDescriptor, groupDescriptors, threshold, i, acc) ==
  IF i > Len(groupDescriptors) THEN acc
  ELSE LET distance == euclideanDistance(capturedDescriptor, groupDescriptors[i])
       IN IF distance = Throw
          THEN bestLoop(capturedDescriptor, groupDescriptors, threshold, i + 1, acc)
          ELSE IF LessDist(distance, acc.bestDistance)
          THEN bestLoop(capturedDescriptor, groupDescriptors, threshold, i + 1,
                        [bestDistance |-> distance,
                         bestMatch |-> Less(distance, threshold)])
          ELSE bestLoop(capturedDescriptor, groupDescriptors, threshold, i + 1, acc)

\* mutant: no guard for an empty set and the sentinel is returned as it is
findBestMatch_sentinel(capturedDescriptor, groupDescriptors, threshold) ==
  LET t == IF threshold.type = "undefined" THEN VERIFICATION_THRESHOLD
           ELSE threshold.n
      r == bestLoop(capturedDescriptor,
                    IF groupDescriptors.type = "array" THEN groupDescriptors.v
                    ELSE <<>>,
                    t, 1, [bestDistance |-> Infinity, bestMatch |-> FALSE])
  IN [match |-> r.bestMatch,
      distance |-> r.bestDistance,
      confidence |-> IF r.bestDistance = Infinity THEN Zero
                     ELSE MathMax0(Pct(r.bestDistance.sq))]

\* mutant: the comparison with the threshold is reversed
findBestMatch_anyBelow(capturedDescriptor, groupDescriptors, threshold) ==
  IF groupDescriptors.type # "array" \/ Len(groupDescriptors.v) = 0
  THEN [match |-> FALSE, distance |-> Null, confidence |-> Zero]
  ELSE LET t == IF threshold.type = "undefined" THEN VERIFICATION_THRESHOLD
                ELSE threshold.n
           r == bestLoop(capturedDescriptor, groupDescriptors.v, t, 1,
                         [bestDistance |-> Infinity, bestMatch |-> FALSE])
       IN [match |-> r.bestDistance # Infinity
                     /\ (t > 0 /\ r.bestDistance.sq > t * t),
           distance |-> IF r.bestDistance = Infinity THEN Null ELSE r.bestDistance,
           confidence |-> IF r.bestDistance = Infinity THEN Zero
                          ELSE MathMax0(Pct(r.bestDistance.sq))]

\* threshold is a JS value: the default parameter applies when it is undefined
findBestMatch(capturedDescriptor, groupDescriptors, threshold) ==
  IF groupDescriptors.type # "array" \/ Len(groupDescriptors.v) = 0
  THEN [match |-> FALSE, distance |-> Null, confidence |-> Zero]
  ELSE LET t == IF threshold.type = "undefined" THEN VERIFICATION_THRESHOLD
                ELSE threshold.n
           r == bestLoop(capturedDescriptor, groupDescriptors.v, t, 1,
                         [bestDistance |-> Infinity, bestMatch |-> FALSE])
       IN [match |-> r.bestMatch,
           distance |-> IF r.bestDistance = Infinity THEN Null ELSE r.bestDistance,
           confidence |-> IF r.bestDistance = Infinity THEN Zero
                          ELSE MathMax0(Pct(r.bestDistance.sq))]

(***************************************************************************)
(* models/Student.js, models/School.js: the persisted documents.           *)
(* Only schema paths are stored (mongoose strict mode): writes to          *)
(* verificationConfidence, lastVerificationAttempt,                        *)
(* manualVerificationReason/Notes, lastResetDate and resetReason are       *)
(* dropped on save/update.  A date is a clock value, 0 when unset; a       *)
(* per-day confidence is a number, 0 when unset or null.                   *)
(***************************************************************************)
Results == {"success", "failed", "pending", "manually_verified"}
NoPhoto == "none"

dayVerificationSchema == [result |-> "pending", date |-> 0, confidence |-> 0]

studentSchema ==
  [verified |-> FALSE,
   verificationResult |-> "pending",
   manuallyVerified |-> FALSE,
   manualVerificationDate |-> 0,
   day1Photo |-> NoPhoto,
   faceDescriptor |-> Undefined,
   dayVerification |-> [d \in Days |-> dayVerificationSchema]]

schoolSchema(hasPhoto) ==
  [groupPhoto |-> hasPhoto,
   groupDescriptors |-> Arr(<<>>),
   groupDescriptorsStatus |-> "idle",
   groupDescriptorsError |-> FALSE,
   groupDescriptorsUpdatedAt |-> 0]

(***************************************************************************)
(* Requests and responses                                                  *)
(***************************************************************************)
NoImage == [kind |-> "none", head |-> <<>>]
FaceImage(head) == [kind |-> "face", head |-> head]
NoFaceImage == [kind |-> "noface", head |-> <<>>]
BadImage == [kind |-> "invalid", head |-> <<>>]

VerifyBody(descriptor, capturedImage, schoolId, threshold) ==
  [descriptor |-> descriptor, capturedImage |-> capturedImage,
   schoolId |-> schoolId, threshold |-> threshold]
NoBody == VerifyBody(Undefined, NoImage, "none", NoNum)

NoMatchResult == [match |-> FALSE, distance |-> Null, confidence |-> Zero]

\* a response that carries no verification details; code stands for its
\* message, absent fields are "none" / FALSE / 0
Reply(status, code) ==
  [status |-> status, code |-> code, success |-> FALSE, result |-> "none",
   matchResult |-> NoMatchResult, compared |-> FALSE,
   confidence |-> 0, distance |-> Null, threshold |-> 0,
   groupDescriptorsCount |-> 0, usedStudentDescriptor |-> FALSE,
   faceDetected |-> "none", processed |-> 0, results |-> <<>>]

\* the verification route's replies that end an attempt without a comparison:
\* { success: false, result: 'failed', message }
VerifyReply(status, code) == [Reply(status, code) EXCEPT !.result = "failed"]

\* /^[0-9a-fA-F]{24}$/ : ids are "s1" (stored), "unknown" (well-formed, not
\* stored) and "malformed"
isValidObjectId(id) == id # "malformed"

\* Student.findById / School.findById
findStudent(st, id) == id = "s1"
findSchool(id) == id = "school1"

(***************************************************************************)
(* routes/verification.js: extractDescriptorFromBase64                     *)
(* The detector is external: an image either shows one face (its           *)
(* 128-component descriptor), shows none, or cannot be processed.          *)
(***************************************************************************)
\* mutant: an image without a face yields a blank descriptor
extractDescriptorFromBase64_blank(capturedImage) ==
  IF capturedImage.kind = "face"
  THEN [outcome |-> "descriptor",
        descriptor |-> Arr(Emb(capturedImage.head, DescriptorLength))]
  ELSE IF capturedImage.kind = "noface"
  THEN [outcome |-> "descriptor",
        descriptor |-> Arr(Emb(<<>>, DescriptorLength))]
  ELSE [outcome |-> "throw", descriptor |-> Undefined]

\* mutant: an image without a face is an error of the extraction
extractDescriptorFromBase64_throwing(capturedImage) ==
  IF capturedImage.kind = "face"
  THEN [outcome |-> "descriptor",
        descriptor |-> Arr(Emb(capturedImage.head, DescriptorLength))]
  ELSE [outcome |-> "throw", descriptor |-> Undefined]

extractDescriptorFromBase64(capturedImage) ==
  IF capturedImage.kind = "face"
  THEN [outcome |-> "descriptor",
        descriptor |-> Arr(Emb(capturedImage.head, DescriptorLength))]
  ELSE IF capturedImage.kind = "noface"
  THEN [outcome |-> "null", descriptor |-> Undefined]
  ELSE [outcome |-> "throw", descriptor |-> Undefined]

(***************************************************************************)
(* routes/verification.js: router.post('/:studentId')                      *)
(***************************************************************************)
\* mutant: the group descriptors are consulted first
selectMatch_groupFirst(st, sc, capturedDescriptor, verificationThreshold) ==
  IF sc.groupDescriptors.type = "array" /\ Len(sc.groupDescriptors.v) > 0
  THEN findBestMatch(capturedDescriptor, sc.groupDescriptors,
                     Num(verificationThreshold))
       @@ [thrown |-> FALSE]
  ELSE IF st.faceDescriptor.type = "array"
          /\ Len(st.faceDescriptor.v) = DescriptorLength
  THEN LET distance == euclideanDistance(capturedDescriptor, st.faceDescriptor)
       IN IF distance = Throw
          THEN NoMatchResult @@ [thrown |-> TRUE]
          ELSE [match |-> Less(distance, verificationThreshold),
                distance |-> distance,
                confidence |-> MathMax0(Pct(distance.sq)),
                thrown |-> FALSE]
  ELSE NoMatchResult @@ [thrown |-> FALSE]

\* lines 283-295: per-student descriptor if available, else the group's
selectMatch(st, sc, capturedDescriptor, verificationThreshold) ==
  IF st.faceDescriptor.type = "array"
     /\ Len(st.faceDescriptor.v) = DescriptorLength
  THEN LET distance == euclideanDistance(capturedDescriptor, st.faceDescriptor)
       IN IF distance = Throw
          THEN NoMatchResult @@ [thrown |-> TRUE]
          ELSE [match |-> Less(distance, verificationThreshold),
                distance |-> distance,
                confidence |-> MathMax0(Pct(distance.sq)),
                thrown |-> FALSE]
  ELSE findBestMatch(capturedDescriptor, sc.groupDescriptors,
                     Num(verificationThreshold))
       @@ [thrown |-> FALSE]

\* mutant: a completed comparison always marks the student verified
updateData_alwaysVerified(matchResult) ==
  [verified |-> TRUE,
   verificationResult |-> IF matchResult.match THEN "success" ELSE "failed",
   verificationConfidence |-> MathRound(matchResult.confidence)]

\* lines 298-303 (and 416-421 of the batch endpoint): the update of a completed
\* comparison; the attempt's date is not kept in the model
updateData(matchResult) ==
  [verified |-> matchResult.match,
   verificationResult |-> IF matchResult.match THEN "success" ELSE "failed",
   verificationConfidence |-> MathRound(matchResult.confidence)]

\* Student.findByIdAndUpdate(studentId, update) on the stored student: the
\* update is cast to the schema, which has the paths verified and
\* verificationResult and no path verificationConfidence
findByIdAndUpdate(st, update) ==
  [st EXCEPT !.verified = update.verified,
             !.verificationResult = update.verificationResult]

\* student.verificationConfidence as a later read of the document gives it
storedConfidence(st) ==
  IF "verificationConfidence" \in DOMAIN st
  THEN Num(st.verificationConfidence) ELSE NoNum

\* lines 309-326: the response of a completed comparison
verifyResponse(st, sc, matchResult, verificationThreshold) ==
  [status |-> 200, code |-> "verified", success |-> TRUE,
   faceDetected |-> "none", processed |-> 0, results |-> <<>>,
   result |-> IF matchResult.match THEN "success" ELSE "failed",
   matchResult |-> [match |-> matchResult.match,
                    distance |-> matchResult.distance,
                    confidence |-> matchResult.confidence],
   compared |-> TRUE,
   confidence |-> MathRound(matchResult.confidence),
   distance |-> IF matchResult.distance # Null /\ matchResult.distance.sq # 0
                THEN toFixed4(matchResult.distance) ELSE Null,
   threshold |-> verificationThreshold,
   groupDescriptorsCount |-> IF sc.groupDescriptors.type = "array"
                             THEN Len(sc.groupDescriptors.v) ELSE 0,
   usedStudentDescriptor |-> st.faceDescriptor.type = "array"
                             /\ Len(st.faceDescriptor.v) = DescriptorLength]

\* the whole handler: the new student document and the response
verifyHandler(st, sc, id, body) ==
  IF body.capturedImage.kind = "none" /\ body.descriptor.type = "undefined"
  THEN [student |-> st, resp |-> VerifyReply(400, "probe_required")]
  ELSE IF body.schoolId = "none"
  THEN [student |-> st, resp |-> VerifyReply(400, "school_id_required")]
  ELSE IF ~isValidObjectId(id) \/ ~isValidObjectId(body.schoolId)
  THEN [student |-> st, resp |-> VerifyReply(500, "unexpected_error")]
  ELSE IF ~findStudent(st, id)
  THEN [student |-> st, resp |-> VerifyReply(404, "student_not_found")]
  ELSE IF ~findSchool(body.schoolId)
  THEN [student |-> st, resp |-> VerifyReply(404, "school_not_found")]
  ELSE
    LET client == body.descriptor.type = "array" /\ Len(body.descriptor.v) > 0
        extractionResult == extractDescriptorFromBase64(body.capturedImage)
    IN
    IF ~client /\ extractionResult.outcome = "throw"
    THEN [student |-> st, resp |-> VerifyReply(503, "service_unavailable")]
    ELSE IF ~client /\ extractionResult.outcome = "null"
    THEN [student |-> st,
          resp |-> [VerifyReply(200, "no_face_detected")
                      EXCEPT !.faceDetected = "false"]]
    ELSE
      LET capturedDescriptor == IF client THEN body.descriptor
                                ELSE extractionResult.descriptor
          verificationThreshold ==
            IF body.threshold.type = "number" /\ body.threshold.n # 0
            THEN body.threshold.n ELSE VERIFICATION_THRESHOLD
      IN
      \* matchResult is bound once, as a value
      Only({ IF matchResult.thrown
             THEN [student |-> st, resp |-> VerifyReply(500, "unexpected_error")]
             ELSE [student |-> findByIdAndUpdate(st, updateData(matchResult)),
                   resp |-> verifyResponse(st, sc, matchResult,
                                           verificationThreshold)] :
             matchResult \in {selectMatch(st, sc, capturedDescriptor,
                                          verificationThreshold)} })

(***************************************************************************)
(* routes/verification.js: router.post('/batch')                           *)
(***************************************************************************)
BatchItem(studentId, capturedImage) ==
  [studentId |-> studentId, capturedImage |-> capturedImage]

\* one entry of the response's results; written tells whether the student
\* update of the item was issued
BatchResult(studentId, success, result, confidence, written) ==
  [studentId |-> studentId, success |-> success, result |-> result,
   confidence |-> confidence, written |-> written]

\* lines 408-447: the loop over the verifications, each in its own try/catch;
\* acc = [student, results]
RECURSIVE batchLoop(_, _, _, _)
batchLoop(sc, verifications, i, acc) ==
  IF i > Len(verifications) THEN acc
  ELSE
    LET verification == verifications[i]
        extractionResult == extractDescriptorFromBase64(verification.capturedImage)
    IN
    IF extractionResult.outcome = "throw"
    THEN batchLoop(sc, verifications, i + 1,
                   [acc EXCEPT !.results =
                      Append(@, BatchResult(verification.studentId, FALSE,
                                            "error", 0, FALSE))])
    ELSE IF extractionResult.outcome = "null"
    THEN batchLoop(sc, verifications, i + 1,
                   [acc EXCEPT !.results =
                      Append(@, BatchResult(verification.studentId, FALSE,
                                            "failed", 0, FALSE))])
    ELSE
      Only({ IF ~isValidObjectId(verification.studentId)
             THEN batchLoop(sc, verifications, i + 1,
                            [acc EXCEPT !.results =
                               Append(@, BatchResult(verification.studentId,
                                                     FALSE, "error", 0, FALSE))])
             ELSE batchLoop(sc, verifications, i + 1,
                            [student |->
                               IF findStudent(acc.student, verification.studentId)
                               THEN findByIdAndUpdate(acc.student,
                                                      updateData(matchResult))
                               ELSE acc.student,
                             results |->
                               Append(acc.results,
                                      BatchResult(verification.studentId, TRUE,
                                                  IF matchResult.match
                                                  THEN "success" ELSE "failed",
                                                  MathRound(matchResult.confidence),
                                                  TRUE))]) :
             matchResult \in {findBestMatch(extractionResult.descriptor,
                                            sc.groupDescriptors, Undefined)} })

\* the whole handler: the new student document and the response
batchHandler(st, sc, body) ==
  IF Len(body.verifications) = 0
  THEN [student |-> st, resp |-> Reply(400, "verifications_required")]
  ELSE IF ~isValidObjectId(body.schoolId)
  THEN [student |-> st, resp |-> Reply(500, "batch_failed")]
  ELSE IF ~findSchool(body.schoolId)
          \/ sc.groupDescriptors.type # "array"
          \/ Len(sc.groupDescriptors.v) = 0
  THEN [student |-> st, resp |-> Reply(400, "school_or_descriptors_missing")]
  ELSE
    LET done == batchLoop(sc, body.verifications, 1,
                          [student |-> st, results |-> <<>>])
    IN [student |-> done.student,
        resp |-> [Reply(200, "batch_processed")
                    EXCEPT !.success = TRUE, !.results = done.results]]

(***************************************************************************)
(* routes/student.js: helpers                                              *)
(***************************************************************************)
DigitOf == [c \in {"0", "1", "2", "3", "4", "5", "6", "7", "8", "9"} |->
              CASE c = "0" -> 0 [] c = "1" -> 1 [] c = "2" -> 2 [] c = "3" -> 3
                [] c = "4" -> 4 [] c = "5" -> 5 [] c = "6" -> 6 [] c = "7" -> 7
                [] c = "8" -> 8 [] c = "9" -> 9]

\* parseInt(text, 10) of a string given as its characters: the value of the
\* longest prefix of digits, NaN when that prefix is empty
RECURSIVE parseDigits(_, _, _)
parseDigits(chars, i, acc) ==
  IF i > Len(chars) \/ chars[i] \notin DOMAIN DigitOf THEN acc
  ELSE parseDigits(chars, i + 1, 10 * acc + DigitOf[chars[i]])

parseInt(chars) ==
  IF Len(chars) = 0 \/ chars[1] \notin DOMAIN DigitOf
  THEN [nan |-> TRUE, n |-> 0]
  ELSE [nan |-> FALSE, n |-> parseDigits(chars, 1, 0)]

\* /^day[1-6]$/.test(`day${n}`): the day index, 0 when the test fails
dayIndex(parsed) == IF ~parsed.nan /\ parsed.n \in Days THEN parsed.n ELSE 0

\* /^day[1-6]$/.test(text) for a string: the day index, 0 when it fails
DayKeys == <<"day1", "day2", "day3", "day4", "day5", "day6">>
dayIndexOfKey(text) ==
  IF \E d \in Days : DayKeys[d] = text
  THEN CHOOSE d \in Days : DayKeys[d] = text ELSE 0

\* the face detector on a photo: "p1" shows a face, any other photo none
PhotoHead == <<3, 4>>
detectSingleFace(photo) ==
  IF photo = "p1" THEN Arr(Emb(PhotoHead, DescriptorLength)) ELSE Undefined

\* student.save(): the enum validator of a day entry's result
validates(st) == \A d \in Days : st.dayVerification[d].result \in Results

(***************************************************************************)
(* routes/student.js: router.post('/:id/save-descriptor')                  *)
(***************************************************************************)
saveDescriptorHandler(st, id, body, clock) ==
  IF ~isValidObjectId(id)
  THEN [student |-> st, resp |-> Reply(400, "invalid_id")]
  ELSE IF body.photo = NoPhoto /\ body.descriptor.type = "undefined"
  THEN [student |-> st, resp |-> Reply(400, "photo_or_descriptor_required")]
  ELSE IF ~findStudent(st, id)
  THEN [student |-> st, resp |-> Reply(404, "student_not_found")]
  ELSE
    LET fromClient == body.descriptor.type = "array"
        detected == detectSingleFace(body.photo)
    IN
    IF ~fromClient /\ detected.type = "undefined"
    THEN [student |-> st, resp |-> Reply(400, "no_face_detected")]
    ELSE
      [student |->
         [st EXCEPT
            !.faceDescriptor = IF fromClient THEN body.descriptor ELSE detected,
            !.day1Photo = IF body.photo # NoPhoto /\ st.day1Photo = NoPhoto
                          THEN body.photo ELSE @,
            !.dayVerification[1].result = "success",
            !.dayVerification[1].date = clock],
       resp |-> Reply(200, "descriptor_saved")]

(***************************************************************************)
(* routes/student.js: router.post('/:id/day/:dayNumber/result')            *)
(***************************************************************************)
\* mutant: the whole dayVerification object is replaced by the one entry
writeDay_replacing(st, day, entry) ==
  [st EXCEPT !.dayVerification =
     [d \in Days |-> IF d = day THEN entry ELSE dayVerificationSchema]]

\* student.dayVerification[dayKey] = entry
writeDay(st, day, entry) == [st EXCEPT !.dayVerification[day] = entry]

dayResultHandler(st, id, dayNumber, body, clock) ==
  LET day == dayIndex(parseInt(dayNumber)) IN
  IF ~isValidObjectId(id)
  THEN [student |-> st, resp |-> Reply(400, "invalid_id")]
  ELSE IF day = 0
  THEN [student |-> st, resp |-> Reply(400, "day_out_of_range")]
  ELSE IF ~findStudent(st, id)
  THEN [student |-> st, resp |-> Reply(404, "student_not_found")]
  ELSE
    LET withPhoto == IF day = 1 /\ body.photo # NoPhoto
                     THEN [st EXCEPT !.day1Photo = body.photo] ELSE st
        updated == writeDay(withPhoto, day,
                            [result |-> IF body.result = "" THEN "pending"
                                        ELSE body.result,
                             confidence |-> body.confidence,
                             date |-> clock])
    IN
    IF ~validates(updated)
    THEN [student |-> st, resp |-> Reply(500, "save_failed")]
    ELSE [student |-> updated, resp |-> Reply(200, "day_result_updated")]

(***************************************************************************)
(* routes/student.js: router.post('/:id/manual-verify')                    *)
(***************************************************************************)
\* lines 376-384: the day key of the request, 0 when there is none
manualDay(day) ==
  IF day.type = "number" THEN dayIndex([nan |-> FALSE, n |-> day.n])
  ELSE IF day.type = "string" THEN dayIndexOfKey(day.s)
  ELSE 0

\* mutant: the duplicate guards are missing
alreadyManuallyVerified_never(st, day) == FALSE

\* lines 389 and 412: the scope is manually verified already
alreadyManuallyVerified(st, day) ==
  IF day # 0 THEN st.dayVerification[day].result = "manually_verified"
  ELSE st.verificationResult = "manually_verified"

manualVerifyHandler(st, id, body, clock) ==
  LET day == manualDay(body.day) IN
  IF ~isValidObjectId(id)
  THEN [student |-> st, resp |-> Reply(400, "invalid_id")]
  ELSE IF ~findStudent(st, id)
  THEN [student |-> st, resp |-> Reply(404, "student_not_found")]
  ELSE IF alreadyManuallyVerified(st, day)
  THEN [student |-> st, resp |-> Reply(400, "already_manually_verified")]
  ELSE IF day # 0
  THEN [student |->
          [writeDay(st, day, [result |-> "manually_verified",
                              confidence |-> 0, date |-> clock])
             EXCEPT !.day1Photo = IF day = 1 /\ body.photo # NoPhoto
                                  THEN body.photo ELSE @],
        resp |-> Reply(200, "manually_verified")]
  ELSE [student |->
          [st EXCEPT !.verified = TRUE,
                     !.verificationResult = "manually_verified",
                     !.manuallyVerified = TRUE,
                     !.manualVerificationDate = clock,
                     !.day1Photo = IF body.photo # NoPhoto
                                   THEN body.photo ELSE @],
        resp |-> Reply(200, "manually_verified")]

(***************************************************************************)
(* routes/student.js: router.post('/:id/reset-verification')               *)
(***************************************************************************)
\* mutant: the pending guard is missing
alreadyPending_never(st) == FALSE

\* line 469
alreadyPending(st) == st.verificationResult = "pending"

\* mutant: the manual-verification fields are not cleared
resetHandler_keepingManual(st, id, body, clock) ==
  IF ~isValidObjectId(id)
  THEN [student |-> st, resp |-> Reply(400, "invalid_id")]
  ELSE IF ~findStudent(st, id)
  THEN [student |-> st, resp |-> Reply(404, "student_not_found")]
  ELSE IF alreadyPending(st)
  THEN [student |-> st, resp |-> Reply(400, "already_pending")]
  ELSE [student |-> [st EXCEPT !.verified = FALSE,
                               !.verificationResult = "pending"],
        resp |-> Reply(200, "reset")]

resetHandler(st, id, body, clock) ==
  IF ~isValidObjectId(id)
  THEN [student |-> st, resp |-> Reply(400, "invalid_id")]
  ELSE IF ~findStudent(st, id)
  THEN [student |-> st, resp |-> Reply(404, "student_not_found")]
  ELSE IF alreadyPending(st)
  THEN [student |-> st, resp |-> Reply(400, "already_pending")]
  ELSE
    LET cleared == [st EXCEPT !.verified = FALSE,
                              !.verificationResult = "pending",
                              !.manuallyVerified = FALSE,
                              !.manualVerificationDate = 0]
    IN
    [student |->
       IF body.clearDay1Photo
       THEN [writeDay(cleared, 1, [result |-> "pending", date |-> clock,
                                   confidence |-> 0])
               EXCEPT !.day1Photo = NoPhoto]
       ELSE cleared,
     resp |-> Reply(200, "reset")]

(***************************************************************************)
(* routes/student.js: router.post('/bulk-actions')                         *)
(***************************************************************************)
\* Student.updateMany({ _id: { $in: studentIds } }, update) on the stored
\* student: the document after the update and modifiedCount
updateMany(st, studentIds, updated) ==
  IF \E i \in 1..Len(studentIds) : findStudent(st, studentIds[i])
  THEN [student |-> updated, modifiedCount |-> IF updated # st THEN 1 ELSE 0]
  ELSE [student |-> st, modifiedCount |-> 0]

bulkActionsHandler(st, body, clock) ==
  IF body.action = "" \/ Len(body.studentIds) = 0
  THEN [student |-> st, resp |-> Reply(400, "action_and_ids_required")]
  ELSE IF Len(body.studentIds) > 100
  THEN [student |-> st, resp |-> Reply(400, "too_many_students")]
  ELSE IF \E i \in 1..Len(body.studentIds) : ~isValidObjectId(body.studentIds[i])
  THEN [student |-> st, resp |-> Reply(400, "invalid_ids")]
  ELSE IF body.action = "manual-verify"
  THEN LET verifyResult ==
             updateMany(st, body.studentIds,
                        [st EXCEPT !.verified = TRUE,
                                   !.verificationResult = "manually_verified",
                                   !.manuallyVerified = TRUE,
                                   !.manualVerificationDate = clock])
       IN [student |-> verifyResult.student,
           resp |-> [Reply(200, "bulk_manual_verify")
                       EXCEPT !.success = TRUE,
                              !.processed = verifyResult.modifiedCount]]
  ELSE IF body.action = "reset-verification"
  THEN LET resetResult ==
             updateMany(st, body.studentIds,
                        [st EXCEPT !.verified = FALSE,
                                   !.verificationResult = "pending",
                                   !.manuallyVerified = FALSE,
                                   !.manualVerificationDate = 0])
       IN [student |-> resetResult.student,
           resp |-> [Reply(200, "bulk_reset")
                       EXCEPT !.success = TRUE,
                              !.processed = resetResult.modifiedCount]]
  ELSE [student |-> st, resp |-> Reply(400, "invalid_action")]

(***************************************************************************)
(* School controller: regenerateGroupDescriptors and its background task   *)
(***************************************************************************)
\* a group photo as the extraction sees it: whether it can be fetched and
\* decoded, and the faces each detection pass finds in it
GroupPhoto(fetched, firstPass, secondPass) ==
  [fetched |-> fetched, firstPass |-> firstPass, secondPass |-> secondPass]

\* mutant: a photo without faces yields an empty list instead of a throw
extractGroupDescriptors_empty(image) ==
  IF ~image.fetched THEN [thrown |-> TRUE, descriptors |-> <<>>]
  ELSE IF Len(image.firstPass) = 0
  THEN [thrown |-> FALSE, descriptors |-> image.secondPass]
  ELSE [thrown |-> FALSE, descriptors |-> image.firstPass]

\* extractGroupDescriptors: throws on an empty or undecodable buffer and when
\* neither detection pass finds a face
extractGroupDescriptors(image) ==
  IF ~image.fetched THEN [thrown |-> TRUE, descriptors |-> <<>>]
  ELSE IF Len(image.firstPass) = 0
  THEN IF Len(image.secondPass) = 0
       THEN [thrown |-> TRUE, descriptors |-> <<>>]
       ELSE [thrown |-> FALSE, descriptors |-> image.secondPass]
  ELSE [thrown |-> FALSE, descriptors |-> image.firstPass]

\* a scheduled extraction callback: who scheduled it and when, whether it has
\* run, when it finished and what it wrote
Task(by, issuedAt) ==
  [by |-> by, issuedAt |-> issuedAt, pos |-> "scheduled", doneAt |-> 0,
   wrote |-> "none", descriptors |-> Arr(<<>>)]

regenerateGroupDescriptors(sc, schoolId) ==
  IF ~findSchool(schoolId)
  THEN [school |-> sc, spawned |-> FALSE, resp |-> Reply(404, "school_not_found")]
  ELSE IF ~sc.groupPhoto
  THEN [school |-> sc, spawned |-> FALSE, resp |-> Reply(400, "no_group_photo")]
  ELSE [school |-> [sc EXCEPT !.groupDescriptorsStatus = "processing",
                              !.groupDescriptorsError = FALSE],
        spawned |-> TRUE,
        resp |-> Reply(202, "regeneration_started")]

\* the setImmediate callback: fetch the photo, extract, store the outcome
backgroundTask(sc, image, clock) ==
  LET extraction == extractGroupDescriptors(image) IN
  IF ~extraction.thrown
  THEN [sc EXCEPT !.groupDescriptors = Arr(extraction.descriptors),
                  !.groupDescriptorsStatus = "ready",
                  !.groupDescriptorsError = FALSE,
                  !.groupDescriptorsUpdatedAt = clock]
  ELSE [sc EXCEPT !.groupDescriptorsStatus = "error",
                  !.groupDescriptorsError = TRUE,
                  !.groupDescriptorsUpdatedAt = clock]

(***************************************************************************)
(* Inputs explored                                                         *)
(***************************************************************************)
Points == {<<0, 0>>, <<3, 4>>, <<6, 0>>, <<6, 8>>}
Probes == {Arr(Emb(p, DescriptorLength)) : p \in Points}
ShortProbe == Arr(Emb(<<0, 0>>, 2))
Origin == Arr(Emb(<<0, 0>>, DescriptorLength))

\* the faces a detection pass can find in a group photo: one, three, or none
GroupSets ==
  { <<Origin>>,
    <<Arr(Emb(<<6, 8>>, DescriptorLength)), Arr(Emb(<<6, 0>>, DescriptorLength)),
      Arr(Emb(<<3, 4>>, DescriptorLength))>>,
    <<>> }

\* the photos explored: faces found at once, faces found by the second pass
\* only, no face found, and a photo that cannot be fetched
GroupPhotos ==
  { GroupPhoto(TRUE, g, <<>>) : g \in GroupSets }
  \cup { GroupPhoto(TRUE, <<>>, <<Origin>>), GroupPhoto(FALSE, <<>>, <<>>) }

VerifyRequests ==
  { [id |-> "s1", body |-> VerifyBody(d, NoImage, "school1", t)] :
      d \in Probes, t \in {NoNum, Num(5), Num(10)} }
  \cup { [id |-> "s1", body |-> VerifyBody(Origin, NoImage, "school1", t)] :
           t \in {Num(0), Num(0 - 6), Str(5)} }
  \cup { [id |-> "s1", body |-> VerifyBody(d, NoImage, "school1", NoNum)] :
           d \in {ShortProbe, Arr(<<>>)} }
  \cup { [id |-> "s1", body |-> VerifyBody(Undefined, i, "school1", NoNum)] :
           i \in {FaceImage(<<3, 4>>), NoFaceImage, BadImage, NoImage} }
  \cup { [id |-> "s1", body |-> VerifyBody(Origin, NoImage, sid, NoNum)] :
           sid \in {"none", "unknown", "malformed"} }
  \cup { [id |-> i, body |-> VerifyBody(Origin, NoImage, "school1", NoNum)] :
           i \in {"unknown", "malformed"} }

DayBody(result, confidence, photo) ==
  [result |-> result, confidence |-> confidence, photo |-> photo]
DayResultRequests ==
  { [id |-> "s1", dayNumber |-> <<c>>, body |-> DayBody(r, 87, NoPhoto)] :
      c \in {"1", "2", "3", "4", "5", "6"}, r \in {"success", "failed"} }
  \cup { [id |-> "s1", dayNumber |-> dn, body |-> DayBody("success", 87, NoPhoto)] :
           dn \in {<<"0">>, <<"7">>, <<"1", "2">>, <<"3", "x">>, <<"x">>, <<>>} }
  \cup { [id |-> "s1", dayNumber |-> <<"1">>, body |-> DayBody("success", 87, "p1")],
         [id |-> "s1", dayNumber |-> <<"2">>, body |-> DayBody("", 0, "p1")],
         [id |-> "s1", dayNumber |-> <<"2">>, body |-> DayBody("bogus", 87, NoPhoto)],
         [id |-> "unknown", dayNumber |-> <<"2">>, body |-> DayBody("success", 87, NoPhoto)],
         [id |-> "malformed", dayNumber |-> <<"2">>, body |-> DayBody("success", 87, NoPhoto)] }

DayUndefined == [type |-> "undefined", n |-> 0, s |-> ""]
DayNumber(n) == [type |-> "number", n |-> n, s |-> ""]
DayString(s) == [type |-> "string", n |-> 0, s |-> s]
ManualBody(day, photo) == [day |-> day, photo |-> photo]
ManualVerifyRequests ==
  { [id |-> "s1", body |-> ManualBody(d, NoPhoto)] :
      d \in {DayUndefined} \cup {DayNumber(n) : n \in 0..7}
            \cup {DayString("day2"), DayString("2")} }
  \cup { [id |-> "s1", body |-> ManualBody(d, "p1")] :
           d \in {DayUndefined, DayNumber(1)} }
  \cup { [id |-> i, body |-> ManualBody(DayUndefined, NoPhoto)] :
           i \in {"unknown", "malformed"} }

ResetRequests ==
  { [id |-> "s1", body |-> [clearDay1Photo |-> c]] : c \in BOOLEAN }
  \cup { [id |-> i, body |-> [clearDay1Photo |-> FALSE]] :
           i \in {"unknown", "malformed"} }

BulkBody(action, studentIds) == [action |-> action, studentIds |-> studentIds]
BulkRequests ==
  { BulkBody(a, ids) :
      a \in {"manual-verify", "reset-verification"},
      ids \in {<<"s1">>, <<"unknown", "s1">>, <<"unknown">>} }
  \cup { BulkBody("manual-verify", <<>>), BulkBody("", <<"s1">>),
         BulkBody("delete", <<"s1">>),
         BulkBody("reset-verification", <<"s1", "malformed">>) }

BatchBody(verifications, schoolId) ==
  [verifications |-> verifications, schoolId |-> schoolId]
BatchRequests ==
  { BatchBody(<<BatchItem("s1", i)>>, "school1") :
      i \in {FaceImage(<<3, 4>>), FaceImage(<<6, 8>>), NoFaceImage, BadImage,
             NoImage} }
  \cup { BatchBody(<<BatchItem(id, FaceImage(<<3, 4>>))>>, "school1") :
           id \in {"unknown", "malformed"} }
  \cup { BatchBody(<<BatchItem("s1", FaceImage(<<3, 4>>))>>, sid) :
           sid \in {"none", "unknown", "malformed"} }
  \cup { BatchBody(<<BatchItem("s1", FaceImage(<<3, 4>>)),
                     BatchItem("s1", FaceImage(<<6, 8>>))>>, "school1"),
         BatchBody(<<BatchItem("s1", FaceImage(<<3, 4>>)),
                     BatchItem("s1", NoFaceImage)>>, "school1"),
         BatchBody(<<>>, "school1") }

SaveBody(descriptor, photo) == [descriptor |-> descriptor, photo |-> photo]
SaveDescriptorRequests ==
  { [id |-> "s1", body |-> SaveBody(d, NoPhoto)] :
      d \in {Origin, Arr(Emb(<<3, 4>>, DescriptorLength)), ShortProbe,
             Arr(<<>>), Undefined} }
  \cup { [id |-> "s1", body |-> SaveBody(Undefined, ph)] : ph \in {"p1", "p0"} }
  \cup { [id |-> "s1", body |-> SaveBody(Origin, "p1")] }
  \cup { [id |-> i, body |-> SaveBody(Origin, NoPhoto)] :
           i \in {"unknown", "malformed"} }

(***************************************************************************)
(* The server: one action per request handler                              *)
(***************************************************************************)
\* the harness before its call
NoCall == [fn |-> "none", i |-> 0, match |-> FALSE, distance |-> Null,
           confidence |-> Zero]

Handled(op, id, day, body, resp) ==
  [op |-> op, id |-> id, day |-> day, req |-> body, resp |-> resp]

Init ==
  /\ student = studentSchema
  /\ \E hasPhoto \in BOOLEAN :
       /\ school = IF hasPhoto
                   THEN [schoolSchema(TRUE) EXCEPT
                           !.groupDescriptorsStatus = "processing"]
                   ELSE schoolSchema(FALSE)
       /\ tasks = IF hasPhoto THEN <<Task("addSchool", 0)>> ELSE <<>>
  /\ now = 0
  /\ last = Handled("addSchool", "s1", 0, NoBody, Reply(200, "school_added"))
  /\ desc1 = Undefined
  /\ refs = Undefined
  /\ thr = NoNum
  /\ ret = NoCall

Verify ==
  \E r \in VerifyRequests :
    LET out == verifyHandler(student, school, r.id, r.body) IN
    /\ now < MaxClock
    /\ student' = out.student
    /\ last' = Handled("verify", r.id, 0, r.body, out.resp)
    /\ now' = now + 1
    /\ UNCHANGED <<school, tasks>>

SaveDescriptorUpTo(limit) ==
  \E r \in SaveDescriptorRequests :
    LET out == saveDescriptorHandler(student, r.id, r.body, now + 1) IN
    /\ now < limit
    /\ student' = out.student
    /\ last' = Handled("saveDescriptor", r.id, 0, NoBody, out.resp)
    /\ now' = now + 1
    /\ UNCHANGED <<school, tasks>>

DayResult ==
  \E r \in DayResultRequests :
    LET out == dayResultHandler(student, r.id, r.dayNumber, r.body, now + 1) IN
    /\ now < MaxClock
    /\ student' = out.student
    /\ last' = Handled("dayResult", r.id, dayIndex(parseInt(r.dayNumber)),
                       NoBody, out.resp)
    /\ now' = now + 1
    /\ UNCHANGED <<school, tasks>>

ManualVerify ==
  \E r \in ManualVerifyRequests :
    LET out == manualVerifyHandler(student, r.id, r.body, now + 1) IN
    /\ now < MaxClock
    /\ student' = out.student
    /\ last' = Handled("manualVerify", r.id, manualDay(r.body.day),
                       r.body @@ NoBody, out.resp)
    /\ now' = now + 1
    /\ UNCHANGED <<school, tasks>>

ResetVerification ==
  \E r \in ResetRequests :
    LET out == resetHandler(student, r.id, r.body, now + 1) IN
    /\ now < MaxClock
    /\ student' = out.student
    /\ last' = Handled("reset", r.id, 0, r.body @@ NoBody, out.resp)
    /\ now' = now + 1
    /\ UNCHANGED <<school, tasks>>

\* the operation a bulk request stands for
bulkOp(action) ==
  IF action = "manual-verify" THEN "bulkManualVerify"
  ELSE IF action = "reset-verification" THEN "bulkReset"
  ELSE "bulk"

BulkActions ==
  \E r \in BulkRequests :
    LET out == bulkActionsHandler(student, r, now + 1) IN
    /\ now < MaxClock
    /\ student' = out.student
    /\ last' = Handled(bulkOp(r.action),
                       IF \E i \in 1..Len(r.studentIds) : r.studentIds[i] = "s1"
                       THEN "s1" ELSE "none",
                       0, NoBody, out.resp)
    /\ now' = now + 1
    /\ UNCHANGED <<school, tasks>>

BatchUpTo(limit) ==
  \E r \in BatchRequests :
    LET out == batchHandler(student, school, r) IN
    /\ now < limit
    /\ student' = out.student
    /\ last' = Handled("batch", "s1", 0, r @@ NoBody, out.resp)
    /\ now' = now + 1
    /\ UNCHANGED <<school, tasks>>

RegenerateUpTo(limit) ==
  \E sid \in {"school1", "unknown"} :
    LET out == regenerateGroupDescriptors(school, sid) IN
    /\ now < limit
    /\ school' = out.school
    /\ tasks' = IF out.spawned THEN Append(tasks, Task("regenerate", now + 1))
                ELSE tasks
    /\ last' = Handled("regenerate", "s1", 0, NoBody, out.resp)
    /\ now' = now + 1
    /\ UNCHANGED student

\* one scheduled callback runs; callbacks complete in any order
BackgroundUpTo(limit) ==
  \E i \in DOMAIN tasks, image \in GroupPhotos :
    /\ now < limit
    /\ tasks[i].pos = "scheduled"
    /\ school' = backgroundTask(school, image, now + 1)
    /\ tasks' = [tasks EXCEPT ![i].pos = "done",
                              ![i].doneAt = now + 1,
                              ![i].wrote = school'.groupDescriptorsStatus,
                              ![i].descriptors =
                                IF school'.groupDescriptorsStatus = "ready"
                                THEN school'.groupDescriptors ELSE Arr(<<>>)]
    /\ last' = Handled("background", "s1", 0, NoBody, Reply(0, "task_done"))
    /\ now' = now + 1
    /\ UNCHANGED student

SaveDescriptor == SaveDescriptorUpTo(MaxClock)

Batch == BatchUpTo(MaxClock)

Regenerate == RegenerateUpTo(MaxClock)

Background == BackgroundUpTo(MaxClock)

Next ==
  /\ \/ Verify
     \/ SaveDescriptor
     \/ DayResult
     \/ ManualVerify
     \/ ResetVerification
     \/ BulkActions
     \/ Batch
     \/ Regenerate
     \/ Background
  /\ UNCHANGED harnessVars

Spec == Init /\ [][Next]_vars

(***************************************************************************)
(* The school's descriptors on their own: regeneration requests and the    *)
(* extraction callbacks, followed for longer than the requests above       *)
(***************************************************************************)
SchoolRegenerate == RegenerateUpTo(MaxSchoolClock)

SchoolBackground == BackgroundUpTo(MaxSchoolClock)

SchoolNext ==
  /\ \/ SchoolRegenerate
     \/ SchoolBackground
  /\ UNCHANGED harnessVars

SpecSchool == Init /\ [][SchoolNext]_vars

(***************************************************************************)
(* The school's descriptors under a fair event loop.  The repository holds *)
(* two versions of the regeneration handler: the one above, which          *)
(* schedules the extraction with setImmediate, and the client-driven one   *)
(* of controllers/schoolController.js, which only marks the school as      *)
(* processing.  A scheduled callback is run by the event loop (weak        *)
(* fairness); a request is accepted only while every scheduled callback    *)
(* still has a clock tick left to run in.                                  *)
(***************************************************************************)
\* controllers/schoolController.js, exports.regenerateGroupDescriptors
\* (client-driven): no extraction is started
clientRegenerateGroupDescriptors(sc, schoolId, clock) ==
  IF ~findSchool(schoolId)
  THEN [school |-> sc, resp |-> Reply(404, "school_not_found")]
  ELSE [school |-> [sc EXCEPT !.groupDescriptorsStatus = "processing",
                              !.groupDescriptorsError = FALSE,
                              !.groupDescriptorsUpdatedAt = clock],
        resp |-> Reply(202, "client_regeneration_expected")]

\* the callbacks that have not run yet
Scheduled == {i \in DOMAIN tasks : tasks[i].pos = "scheduled"}

\* a request may take a clock tick only if the callbacks keep theirs
RoomForRequest == now + Cardinality(Scheduled) + 2 <= MaxFairClock

FairRegenerate == RoomForRequest /\ RegenerateUpTo(MaxFairClock)

FairBackground == BackgroundUpTo(MaxFairClock)

ClientRegenerate ==
  \E sid \in {"school1", "unknown"} :
    LET out == clientRegenerateGroupDescriptors(school, sid, now + 1) IN
    /\ RoomForRequest
    /\ school' = out.school
    /\ last' = Handled("clientRegenerate", "s1", 0, NoBody, out.resp)
    /\ now' = now + 1
    /\ UNCHANGED <<student, tasks>>

FairNext ==
  /\ \/ FairRegenerate
     \/ FairBackground
     \/ ClientRegenerate
  /\ UNCHANGED harnessVars

SpecSchoolFair ==
  Init /\ [][FairNext]_vars
       /\ WF_vars(FairBackground /\ UNCHANGED harnessVars)

(***************************************************************************)
(* Batch verification of a student who may have a descriptor of its own:   *)
(* the extraction callbacks, save-descriptor and batch requests, followed  *)
(* for one request more than above                                         *)
(***************************************************************************)
BatchSaveDescriptor == SaveDescriptorUpTo(MaxBatchClock)

BatchBackground == BackgroundUpTo(MaxBatchClock)

BatchVerification == BatchUpTo(MaxBatchClock)

BatchNext ==
  /\ \/ BatchSaveDescriptor
     \/ BatchBackground
     \/ BatchVerification
  /\ UNCHANGED harnessVars

SpecBatch == Init /\ [][BatchNext]_vars

(***************************************************************************)
(* The matching functions on their own: inputs drawn in the initial state, *)
(* one call per behaviour                                                  *)
(***************************************************************************)
HarnessLengths == {2, 3}
HarnessDescriptors ==
  {Arr(Emb(p, n)) : p \in Points, n \in HarnessLengths} \cup {Undefined}
HarnessGroups ==
  {Undefined} \cup
  {Arr(g) : g \in UNION {[1..k -> HarnessDescriptors] : k \in 0..MaxRefs}}
HarnessThresholds ==
  {NoNum, Num(0 - 6), Num(0), Num(5), Num(6), Num(10)}

MatchInit ==
  /\ student = studentSchema
  /\ school = schoolSchema(FALSE)
  /\ tasks = <<>>
  /\ now = 0
  /\ last = Handled("addSchool", "s1", 0, NoBody, Reply(200, "school_added"))
  /\ desc1 \in HarnessDescriptors
  /\ refs \in HarnessGroups
  /\ thr \in HarnessThresholds
  /\ ret = NoCall

\* euclideanDistance(desc1, refs[i])
CallEuclideanDistance ==
  /\ ret.fn = "none"
  /\ refs.type = "array"
  /\ \E i \in 1..Len(refs.v) :
       ret' = [NoCall EXCEPT !.fn = "euclideanDistance", !.i = i,
                             !.distance = euclideanDistance(desc1, refs.v[i])]
  /\ UNCHANGED <<desc1, refs, thr>>

\* findBestMatch(desc1, refs, thr)
CallFindBestMatch ==
  /\ ret.fn = "none"
  /\ LET m == findBestMatch(desc1, refs, thr) IN
       ret' = [fn |-> "findBestMatch", i |-> 0, match |-> m.match,
               distance |-> m.distance, confidence |-> m.confidence]
  /\ UNCHANGED <<desc1, refs, thr>>

MatchNext ==
  /\ \/ CallEuclideanDistance
     \/ CallFindBestMatch
  /\ UNCHANGED machineVars

SpecMatch == MatchInit /\ [][MatchNext]_vars

(***************************************************************************)
(* Properties                                                              *)
(***************************************************************************)
Statuses == {"idle", "processing", "ready", "error"}
GroupStates ==
  { [schoolSchema(TRUE) EXCEPT !.groupDescriptors = Arr(g),
                               !.groupDescriptorsStatus = st] :
      g \in GroupSets, st \in Statuses }

\* the student holds a personal embedding (an Embedding has 128 components)
HasPersonalEmbedding(st) ==
  st.faceDescriptor.type = "array" /\ Len(st.faceDescriptor.v) = DescriptorLength

\* the probe a verification request is decided on
ProbeOf(body) ==
  IF body.descriptor.type = "array" /\ Len(body.descriptor.v) > 0
  THEN body.descriptor
  ELSE extractDescriptorFromBase64(body.capturedImage).descriptor

\* C1: with a personal embedding stored, a verification attempt gives the same
\* response and the same student update under every group record, and a
\* comparison that ran was made against the personal embedding (it has a
\* distance, so it is never a no-reference outcome).
C1_PersonalEmbeddingDecides ==
  [][ (last'.op = "verify" /\ HasPersonalEmbedding(student)) =>
        /\ \A g \in GroupStates :
             \A o \in {verifyHandler(student, g, last'.id, last'.req)} :
               /\ o.student = student'
               /\ o.resp.status = last'.resp.status
               /\ o.resp.result = last'.resp.result
               /\ o.resp.matchResult = last'.resp.matchResult
               /\ o.resp.confidence = last'.resp.confidence
        /\ last'.resp.compared =>
             /\ last'.resp.usedStudentDescriptor
             /\ last'.resp.matchResult.distance =
                  euclideanDistance(ProbeOf(last'.req), student.faceDescriptor)
    ]_vars

C1_Witness ==
  /\ last.op = "verify"
  /\ last.resp.compared
  /\ last.resp.usedStudentDescriptor
  /\ school.groupDescriptorsStatus = "processing"

\* C2: a successful day-result update for day N changes no other day's entry
\* and not the global verdict (nor the stored descriptor; the day-1 photo only
\* when N = 1); a verification attempt changes nothing but the global verdict
\* (verified, verificationResult), so all six day entries stay as they were.
C2_DayWriteFrame ==
  [][ /\ (last'.op = "dayResult" /\ last'.resp.status = 200) =>
           /\ last'.day \in Days
           /\ \A d \in Days \ {last'.day} :
                student'.dayVerification[d] = student.dayVerification[d]
           /\ student'.verificationResult = student.verificationResult
           /\ student'.verified = student.verified
           /\ student'.manuallyVerified = student.manuallyVerified
           /\ student'.manualVerificationDate = student.manualVerificationDate
           /\ student'.faceDescriptor = student.faceDescriptor
           /\ last'.day # 1 => student'.day1Photo = student.day1Photo
      /\ last'.op = "verify" =>
           student' = [student EXCEPT
                         !.verified = student'.verified,
                         !.verificationResult = student'.verificationResult]
    ]_vars

C2_Witness ==
  /\ last.op = "dayResult"
  /\ last.resp.status = 200
  /\ last.day = 3
  /\ student.dayVerification[3].result = "success"
  /\ student.dayVerification[1].result = "failed"

\* C3: manual-verify on a scope (global, or a day) that is manually_verified
\* already is rejected as such and leaves the student document as it was.
C3_ManualVerifyGuard ==
  [][ (/\ last'.op = "manualVerify"
       /\ last'.id = "s1"
       /\ IF last'.day \in Days
          THEN student.dayVerification[last'.day].result = "manually_verified"
          ELSE student.verificationResult = "manually_verified") =>
        /\ last'.resp.status = 400
        /\ last'.resp.code = "already_manually_verified"
        /\ student' = student
    ]_vars

C3_Witness ==
  /\ last.op = "manualVerify"
  /\ last.resp.code = "already_manually_verified"
  /\ last.day \in Days

\* C4: reset on a verdict that is pending already is rejected as such and
\* leaves the student document as it was.
C4_ResetGuard ==
  [][ (/\ last'.op = "reset"
       /\ last'.id = "s1"
       /\ student.verificationResult = "pending") =>
        /\ last'.resp.status = 400
        /\ last'.resp.code = "already_pending"
        /\ student' = student
    ]_vars

C4_Witness ==
  /\ last.op = "reset"
  /\ last.resp.code = "already_pending"
  /\ student.dayVerification[1].result # "pending"

\* C5: on both paths a comparison matches iff the best distance is strictly
\* below the threshold (sqrt(sq) < t iff t > 0 and sq < t^2); the verdict
\* written is success iff it matched, so distance = threshold gives failed.
C5_StrictThreshold ==
  (last.op = "verify" /\ last.resp.compared
     /\ last.resp.matchResult.distance # Null) =>
    /\ last.resp.matchResult.match <=>
         (last.resp.threshold > 0
          /\ last.resp.matchResult.distance.sq
               < last.resp.threshold * last.resp.threshold)
    /\ last.resp.result =
         (IF last.resp.matchResult.match THEN "success" ELSE "failed")
    /\ student.verificationResult = last.resp.result
    /\ student.verified = last.resp.matchResult.match

C5_Witness ==
  /\ last.op = "verify"
  /\ last.resp.compared
  /\ last.resp.matchResult.distance # Null
  /\ last.resp.threshold > 0
  /\ last.resp.matchResult.distance.sq
       = last.resp.threshold * last.resp.threshold
  /\ last.resp.result = "failed"

\* C6: findBestMatch on an empty or absent reference set returns
\* match = false, distance = null, confidence = 0 for every probe and threshold.
C6_EmptyReferenceSet ==
  (ret.fn = "findBestMatch" /\ (refs.type # "array" \/ Len(refs.v) = 0)) =>
    /\ ret.match = FALSE
    /\ ret.distance = Null
    /\ ret.confidence = Zero
    /\ MathRound(ret.confidence) = 0

C6_Witness ==
  /\ ret.fn = "findBestMatch"
  /\ refs = Arr(<<>>)
  /\ desc1.type = "array"
  /\ thr = Num(10)

\* C7: for a fixed probe and reference set, a match at a threshold is a match
\* at every larger threshold.
ThresholdRange == (0 - 7)..12
C7_MonotonicInThreshold ==
  (ret.fn = "findBestMatch" /\ thr.type = "number") =>
    /\ \A t2 \in ThresholdRange :
         (thr.n <= t2 /\ ret.match) => findBestMatch(desc1, refs, Num(t2)).match
    /\ \A t1 \in ThresholdRange :
         (t1 <= thr.n /\ findBestMatch(desc1, refs, Num(t1)).match) => ret.match

C7_Witness ==
  /\ ret.fn = "findBestMatch"
  /\ thr = Num(5)
  /\ ret.match = FALSE
  /\ ret.distance # Null
  /\ findBestMatch(desc1, refs, Num(6)).match

\* C8: euclideanDistance throws whenever an argument is missing or the two
\* lengths differ.
C8_DimensionMismatch ==
  (ret.fn = "euclideanDistance"
     /\ (\/ desc1.type # "array"
         \/ refs.v[ret.i].type # "array"
         \/ Len(desc1.v) # Len(refs.v[ret.i].v))) =>
    ret.distance = Throw

C8_Witness ==
  /\ ret.fn = "euclideanDistance"
  /\ desc1.type = "array"
  /\ refs.v[ret.i].type = "array"
  /\ Len(desc1.v) # Len(refs.v[ret.i].v)
  /\ ret.distance = Throw

\* C9: euclideanDistance(a, b) = euclideanDistance(b, a) for descriptors of
\* equal length.
C9_Symmetric ==
  (ret.fn = "euclideanDistance"
     /\ desc1.type = "array" /\ refs.v[ret.i].type = "array"
     /\ Len(desc1.v) = Len(refs.v[ret.i].v)) =>
    /\ ret.distance # Throw
    /\ ret.distance = euclideanDistance(refs.v[ret.i], desc1)

C9_Witness ==
  /\ ret.fn = "euclideanDistance"
  /\ ret.distance.k = "sqrt"
  /\ ret.distance.sq > 0
  /\ desc1 # refs.v[ret.i]

\* the reference set the handler compares the probe with (selectMatch)
ReferenceSetInUse ==
  IF HasPersonalEmbedding(student) THEN {student.faceDescriptor}
  ELSE {school.groupDescriptors.v[i] : i \in 1..Len(school.groupDescriptors.v)}

IdenticalProbeVerified ==
  /\ last.op = "verify"
  /\ last.resp.compared
  /\ last.resp.threshold = VERIFICATION_THRESHOLD
  /\ ProbeOf(last.req) \in ReferenceSetInUse

\* C10 (as the code behaves): a probe identical to a member of the reference
\* set in use, at the default threshold, matches: the verdict is success, the
\* best distance found is 0 and the confidence is 100; the distance written
\* into the response, however, is null, because a distance of 0 is falsy.
C10_IdenticalProbeMatches ==
  IdenticalProbeVerified =>
    /\ last.resp.matchResult.match
    /\ last.resp.matchResult.distance = Sqrt(0)
    /\ last.resp.result = "success"
    /\ student.verificationResult = "success"
    /\ student.verified
    /\ last.resp.confidence = 100
    /\ last.resp.distance = Null

C10_Witness ==
  /\ IdenticalProbeVerified
  /\ last.resp.status = 200
  /\ last.resp.result = "success"

\* C10: a probe identical to a member of the reference set in use, at the
\* default threshold, is reported as matched, success, with a best distance
\* of 0 (a number, not null) and a confidence of 100.
C10_IdenticalProbe ==
  IdenticalProbeVerified =>
    /\ last.resp.matchResult.match
    /\ last.resp.result = "success"
    /\ student.verificationResult = "success"
    /\ last.resp.distance = Fixed4(0)
    /\ last.resp.confidence = 100

\* a verification request that names the stored student and school and from
\* which a probe is obtained
ProbeObtained ==
  /\ last.op = "verify"
  /\ last.id = "s1"
  /\ last.req.schoolId = "school1"
  /\ ProbeOf(last.req).type = "array"

\* the attempt relies on the group's descriptors, and there are none
EmptyGroupAttempt ==
  /\ ProbeObtained
  /\ ~HasPersonalEmbedding(student)
  /\ Len(school.groupDescriptors.v) = 0

\* C11 (as the code behaves): an attempt that relies on an empty group set is
\* answered 200 with result 'failed', distance null and confidence 0, and the
\* student is stored as failed, like a comparison that ran and did not match;
\* only details.groupDescriptorsCount = 0 tells the two apart.
C11_EmptyGroupReportedFailed ==
  EmptyGroupAttempt =>
    /\ last.resp.status = 200
    /\ last.resp.success
    /\ last.resp.result = "failed"
    /\ last.resp.distance = Null
    /\ last.resp.confidence = 0
    /\ last.resp.groupDescriptorsCount = 0
    /\ student.verificationResult = "failed"
    /\ ~student.verified

C11_Witness ==
  /\ EmptyGroupAttempt
  /\ school.groupDescriptorsStatus = "idle"

\* C11: an attempt for a student without a personal embedding against an
\* empty group set is classified as no-reference-available, an outcome other
\* than 'failed' (and other than 'success').
C11_NoReferenceOutcome ==
  EmptyGroupAttempt =>
    /\ last.resp.result \notin {"failed", "success"}
    /\ student.verificationResult # "failed"

\* the group's status says its descriptors are being computed or are in error
GroupNotReady(sc) == sc.groupDescriptorsStatus \in {"processing", "error"}

\* C12 (as the code behaves): the handler never reads groupDescriptorsStatus:
\* under every status the attempt gives the same response and student update,
\* and without a personal embedding it runs findBestMatch on the stored set.
C12_StatusNeverRead ==
  [][ last'.op = "verify" =>
        /\ \A status \in Statuses :
             \A o \in {verifyHandler(student,
                                     [school EXCEPT !.groupDescriptorsStatus = status],
                                     last'.id, last'.req)} :
               /\ o.student = student'
               /\ o.resp = last'.resp
        /\ (last'.resp.compared /\ ~HasPersonalEmbedding(student)) =>
             last'.resp.matchResult =
               findBestMatch(ProbeOf(last'.req), school.groupDescriptors,
                             Num(last'.resp.threshold))
    ]_vars

C12_Witness ==
  /\ ProbeObtained
  /\ ~HasPersonalEmbedding(student)
  /\ GroupNotReady(school)
  /\ last.resp.compared
  /\ student.verificationResult = "failed"

\* C12: an attempt for a student without a personal embedding, made while the
\* group's status is processing or error, runs no comparison and writes no
\* verdict: the student document stays as it was and the response is neither
\* success nor failed.
C12_NotReadyOutcome ==
  [][ (/\ last'.op = "verify"
       /\ last'.id = "s1"
       /\ last'.req.schoolId = "school1"
       /\ ProbeOf(last'.req).type = "array"
       /\ ~HasPersonalEmbedding(student)
       /\ GroupNotReady(school)) =>
        /\ ~last'.resp.compared
        /\ last'.resp.result \notin {"failed", "success"}
        /\ student' = student
    ]_vars

\* the members of a reference set the probe can be compared with
Comparable(probe, group) ==
  SelectSeq(group, LAMBDA r : r.type = "array" /\ Len(r.v) = Len(probe.v))

MismatchedMember ==
  /\ ret.fn = "findBestMatch"
  /\ desc1.type = "array"
  /\ refs.type = "array"
  /\ \E i \in 1..Len(refs.v) :
       refs.v[i].type = "array" /\ Len(refs.v[i].v) # Len(desc1.v)

\* C13 (as the code behaves): findBestMatch never throws; a member whose
\* length differs from the probe's is skipped and the result is the one
\* computed from the remaining members.
C13_MismatchedMembersSkipped ==
  MismatchedMember =>
    /\ ret.distance # Throw
    /\ \A m \in {findBestMatch(desc1, Arr(Comparable(desc1, refs.v)), thr)} :
         /\ ret.match = m.match
         /\ ret.distance = m.distance
         /\ ret.confidence = m.confidence

C13_Witness ==
  /\ MismatchedMember
  /\ Len(Comparable(desc1, refs.v)) > 0
  /\ ret.match

\* C13: if a member of the reference set has a length different from the
\* probe's, findBestMatch fails with the dimension-mismatch error.
C13_MismatchFailsResolution ==
  MismatchedMember => ret.distance = Throw

\* a threshold was sent and it is not a positive number
InvalidThreshold(t) ==
  t.type # "undefined" /\ ~(t.type = "number" /\ t.n > 0)

\* C14 (as the code behaves): a threshold of 0 or one that is not a number is
\* replaced by the default, a negative one is used as given; the comparison
\* runs and the verdict is written.
C14_ThresholdDefaultedOrUsed ==
  (ProbeObtained /\ InvalidThreshold(last.req.threshold)
     /\ last.resp.status = 200) =>
    /\ last.resp.compared
    /\ last.resp.threshold =
         (IF last.req.threshold.type = "number" /\ last.req.threshold.n # 0
          THEN last.req.threshold.n ELSE VERIFICATION_THRESHOLD)
    /\ student.verificationResult = last.resp.result
    /\ last.req.threshold.type = "number" /\ last.req.threshold.n < 0 =>
         last.resp.result = "failed"

C14_Witness ==
  /\ ProbeObtained
  /\ last.req.threshold = Num(0)
  /\ last.resp.result = "success"
  /\ student.verificationResult = "success"

\* C14: a verification request whose threshold is not a positive number is
\* rejected with an invalid-threshold error, before any comparison.
C14_InvalidThresholdRejected ==
  (last.op = "verify" /\ InvalidThreshold(last.req.threshold)) =>
    /\ last.resp.status = 400
    /\ last.resp.code = "invalid_threshold"
    /\ ~last.resp.compared

\* C15: whenever the school's groupDescriptorsStatus is ready, its stored
\* groupDescriptors are not empty (through creation, the extraction callbacks
\* in any order, and regeneration requests).
C15_ReadyImpliesNonEmpty ==
  school.groupDescriptorsStatus = "ready" =>
    /\ school.groupDescriptors.type = "array"
    /\ Len(school.groupDescriptors.v) > 0

C15_Witness ==
  /\ school.groupDescriptorsStatus = "ready"
  /\ Len(school.groupDescriptors.v) = 3
  /\ \E i \in DOMAIN tasks :
       /\ tasks[i].by = "regenerate"
       /\ tasks[i].wrote = "ready"
       /\ tasks[i].doneAt = now
  /\ \E j \in DOMAIN tasks : tasks[j].wrote = "error"

\* two regenerations were requested once the school's first extraction had
\* finished, and every callback has run
TwoRegenerationsDone ==
  /\ Len(tasks) = 3
  /\ tasks[2].by = "regenerate"
  /\ tasks[3].by = "regenerate"
  /\ tasks[1].pos = "done"
  /\ tasks[1].doneAt < tasks[2].issuedAt
  /\ tasks[2].pos = "done"
  /\ tasks[3].pos = "done"

\* C18 (as the code behaves): the stored status and set are those written by
\* the callback that finished last, whichever request scheduled it.
C18_LastFinishedWins ==
  TwoRegenerationsDone =>
    \A i \in {2, 3} :
      (\A j \in {2, 3} : tasks[j].doneAt <= tasks[i].doneAt) =>
        /\ school.groupDescriptorsStatus = tasks[i].wrote
        /\ tasks[i].wrote = "ready" =>
             school.groupDescriptors = tasks[i].descriptors

C18_Witness ==
  /\ TwoRegenerationsDone
  /\ tasks[3].doneAt < tasks[2].doneAt
  /\ tasks[3].wrote = "ready"
  /\ tasks[2].wrote = "error"
  /\ school.groupDescriptorsStatus = "error"

\* C18: after two regeneration requests whose callbacks have both run, the
\* stored status and set are those produced by the request issued later.
C18_LaterRequestWins ==
  TwoRegenerationsDone =>
    /\ school.groupDescriptorsStatus = tasks[3].wrote
    /\ tasks[3].wrote = "ready" =>
         school.groupDescriptors = tasks[3].descriptors

\* the scopes (0: global, 1..6: the days) whose verdict a step sets back to
\* pending
BackToPending(before, after) ==
  {g \in {0} : before.verificationResult # "pending"
               /\ after.verificationResult = "pending"}
  \cup {d \in Days : before.dayVerification[d].result # "pending"
                      /\ after.dayVerification[d].result = "pending"}

\* C16 (as the code behaves): the global verdict goes back to pending only by
\* a reset (single or bulk); a day's verdict goes back to pending by a reset
\* that clears day 1 and also by a day-result update, which stores 'pending'
\* when the request carries no result.
C16_PendingByResetOrDayResult ==
  [][ /\ 0 \in BackToPending(student, student') =>
           last'.op \in {"reset", "bulkReset"}
      /\ \A d \in Days :
           d \in BackToPending(student, student') =>
             \/ last'.op = "reset" /\ d = 1
             \/ last'.op = "dayResult" /\ d = last'.day
    ]_vars

C16_Witness ==
  /\ last.op = "dayResult"
  /\ last.resp.status = 200
  /\ last.day = 2
  /\ student.dayVerification[2].result = "pending"
  /\ student.dayVerification[2].date = 2

\* C16: in every scope, a verdict that is not pending is set back to pending
\* by a reset only: never by a verification attempt, a day-result update, a
\* manual verification (single or bulk) or a descriptor save.
C16_OnlyResetWritesPending ==
  [][ BackToPending(student, student') # {} =>
        last'.op \in {"reset", "bulkReset"}
    ]_vars

\* C17 (as the code behaves): a bulk reset leaves the student as the single
\* reset does, guard included; a bulk manual verification has no guard: it
\* rewrites a student that is manually verified already and counts it.
C17_BulkWithoutGuard ==
  [][ /\ (last'.op = "bulkReset" /\ last'.id = "s1"
             /\ last'.resp.status = 200) =>
           \A o \in {resetHandler(student, "s1", [clearDay1Photo |-> FALSE],
                                   now')} :
             /\ student' = o.student
             /\ last'.resp.processed = (IF o.resp.status = 200 THEN 1 ELSE 0)
      /\ (last'.op = "bulkManualVerify" /\ last'.id = "s1"
             /\ last'.resp.status = 200) =>
           /\ student' = [student EXCEPT
                            !.verified = TRUE,
                            !.verificationResult = "manually_verified",
                            !.manuallyVerified = TRUE,
                            !.manualVerificationDate = now']
           /\ last'.resp.processed = 1
    ]_vars

C17_Witness ==
  /\ last.op = "bulkManualVerify"
  /\ last.id = "s1"
  /\ last.resp.processed = 1
  /\ student.verificationResult = "manually_verified"
  /\ student.manualVerificationDate = 2
  /\ student.day1Photo = "p1"

\* C17: for a student named in a bulk manual verification or a bulk reset, the
\* resulting document is the one the single operation gives from the same
\* start, guards included, and the student counts as processed exactly when
\* the single operation is accepted.
C17_BulkAsSingle ==
  [][ /\ (last'.op = "bulkReset" /\ last'.id = "s1"
             /\ last'.resp.status = 200) =>
           \A o \in {resetHandler(student, "s1", [clearDay1Photo |-> FALSE],
                                   now')} :
             /\ student' = o.student
             /\ last'.resp.processed = (IF o.resp.status = 200 THEN 1 ELSE 0)
      /\ (last'.op = "bulkManualVerify" /\ last'.id = "s1"
             /\ last'.resp.status = 200) =>
           \A o \in {manualVerifyHandler(student, "s1",
                                          ManualBody(DayUndefined, NoPhoto),
                                          now')} :
             /\ student' = o.student
             /\ last'.resp.processed = (IF o.resp.status = 200 THEN 1 ELSE 0)
    ]_vars

\* a verification attempt from an image in which no face is found
NoFaceAttempt ==
  /\ last.op = "verify"
  /\ last.id = "s1"
  /\ last.req.schoolId = "school1"
  /\ ~(last.req.descriptor.type = "array" /\ Len(last.req.descriptor.v) > 0)
  /\ last.req.capturedImage.kind = "noface"

\* C19: an attempt from an image without a face is answered 200 (no server
\* error) with the no-face message and details.faceDetected = false, runs no
\* comparison, and differs in success, message and details from the response
\* of every comparison that runs, matched or not.
C19_NoFaceDetected ==
  NoFaceAttempt =>
    /\ last.resp.status = 200
    /\ last.resp.code = "no_face_detected"
    /\ last.resp.faceDetected = "false"
    /\ ~last.resp.success
    /\ ~last.resp.compared
    /\ \A r \in VerifyRequests :
         \A o \in {verifyHandler(student, school, r.id, r.body)} :
           o.resp.compared =>
             /\ o.resp.success # last.resp.success
             /\ o.resp.code # last.resp.code
             /\ o.resp.faceDetected # last.resp.faceDetected

C19_Witness ==
  /\ NoFaceAttempt
  /\ last.resp.code = "no_face_detected"
  /\ last.resp.result = "failed"
  /\ student.verificationResult = "manually_verified"

DaySupplied(day) == day.type # "undefined"

\* C21: a day-result update and a manual verification whose request supplies a
\* day outside 1..6 are answered with a validation error (status 400) and
\* leave the student as it was; the day is never ignored in favour of the
\* global scope.
C21_InvalidDayRejected ==
  [][ /\ (last'.op = "dayResult" /\ last'.day = 0) =>
           /\ last'.resp.status = 400
           /\ student' = student
      /\ (last'.op = "manualVerify" /\ DaySupplied(last'.req.day)
            /\ last'.day = 0) =>
           /\ last'.resp.status = 400
           /\ student' = student
    ]_vars

\* C21 as the code behaves: the day-result update rejects the day with 400 and
\* writes nothing; the manual verification treats a supplied day outside 1..6
\* as no day at all and answers exactly as the request without a day does.
C21_InvalidDayFallsBackToGlobal ==
  [][ /\ (last'.op = "dayResult" /\ last'.day = 0) =>
           /\ last'.resp.status = 400
           /\ student' = student
      /\ (last'.op = "manualVerify" /\ DaySupplied(last'.req.day)
            /\ last'.day = 0) =>
           \A o \in {manualVerifyHandler(student, last'.id,
                                         ManualBody(DayUndefined,
                                                    last'.req.photo), now')} :
             /\ o.student = student'
             /\ o.resp = last'.resp
    ]_vars

\* a manual verification that names day 7 has verified the student globally
C21_Witness ==
  /\ last.op = "manualVerify"
  /\ last.req.day = DayNumber(7)
  /\ last.resp.status = 200
  /\ student.verificationResult = "manually_verified"
  /\ student.manuallyVerified
  /\ \A d \in Days : student.dayVerification[d].result = "pending"

(***************************************************************************)
(* The best distance over a reference set                                  *)
(***************************************************************************)
\* a non-empty reference set whose members all have the probe's length
AllOfProbeLength ==
  /\ desc1.type = "array"
  /\ refs.type = "array"
  /\ Len(refs.v) > 0
  /\ \A i \in 1..Len(refs.v) :
       refs.v[i].type = "array" /\ Len(refs.v[i].v) = Len(desc1.v)

\* C22: for a non-empty reference set whose members all have the probe's
\* length, the distance findBestMatch returns is the distance to one of the
\* members and no member is closer (the minimum), and every reordering of the
\* set gives the same distance, match and confidence.
C22_BestIsMinimum ==
  (ret.fn = "findBestMatch" /\ AllOfProbeLength) =>
    /\ \E i \in 1..Len(refs.v) :
         ret.distance = euclideanDistance(desc1, refs.v[i])
    /\ \A i \in 1..Len(refs.v) :
         ret.distance.sq <= euclideanDistance(desc1, refs.v[i]).sq
    /\ \A p \in Permutations(1..Len(refs.v)) :
         \A m \in {findBestMatch(desc1,
                                 Arr([i \in 1..Len(refs.v) |-> refs.v[p[i]]]),
                                 thr)} :
           /\ m.distance = ret.distance
           /\ m.match = ret.match
           /\ m.confidence = ret.confidence

\* the closest member is not the last one stored
C22_Witness ==
  /\ ret.fn = "findBestMatch"
  /\ AllOfProbeLength
  /\ Len(refs.v) >= 2
  /\ ret.distance = euclideanDistance(desc1, refs.v[1])
  /\ ret.distance.sq < euclideanDistance(desc1, refs.v[Len(refs.v)]).sq

(***************************************************************************)
(* The confidence of a comparison                                          *)
(***************************************************************************)
\* max(0, (1 - distance) * 100) of a best distance, 0 when there is none
ConfidenceOf(distance) ==
  IF distance = Null THEN Zero
  ELSE IF distance.sq >= One * One THEN Zero
  ELSE Pct(distance.sq)

\* C23: on both comparison paths the confidence is max(0, (1 - bestDistance) *
\* 100), never negative and 0 for every best distance >= 1; the confidence
\* returned in the response and the confidence stored on the student are the
\* rounding of that value.
C23_ConfidenceStoredAndReturned ==
  (last.op = "verify" /\ last.resp.compared) =>
    /\ last.resp.matchResult.confidence
         = ConfidenceOf(last.resp.matchResult.distance)
    /\ last.resp.matchResult.confidence.sq <= One * One
    /\ last.resp.confidence = MathRound(last.resp.matchResult.confidence)
    /\ last.resp.confidence >= 0
    /\ storedConfidence(student) = Num(last.resp.confidence)

\* C23 as the code behaves: the confidence is computed and returned as the
\* claim says on both paths; the student document holds no confidence.
C23_ConfidenceReturnedOnly ==
  (last.op = "verify" /\ last.resp.compared) =>
    /\ last.resp.matchResult.confidence
         = ConfidenceOf(last.resp.matchResult.distance)
    /\ last.resp.matchResult.confidence.sq <= One * One
    /\ last.resp.confidence = MathRound(last.resp.matchResult.confidence)
    /\ last.resp.confidence >= 0
    /\ last.resp.confidence <= 100
    /\ last.resp.matchResult.distance # Null =>
         (last.resp.matchResult.distance.sq >= One * One
            => last.resp.confidence = 0)
    /\ storedConfidence(student) = NoNum

\* a comparison against the personal embedding returned confidence 50
C23_Witness ==
  /\ last.op = "verify"
  /\ last.resp.compared
  /\ last.resp.usedStudentDescriptor
  /\ last.resp.confidence = 50
  /\ student.verificationResult = "success"
  /\ storedConfidence(student) = NoNum

(***************************************************************************)
(* The saved descriptor                                                    *)
(***************************************************************************)
\* a save-descriptor call has succeeded for the student: nothing else writes
\* faceDescriptor and nothing clears it
DescriptorSaved(st) == st.faceDescriptor.type = "array"

\* C24: once a save-descriptor call has succeeded, with any descriptor the
\* endpoint accepts, every later verification attempt that compares is decided
\* against the saved descriptor and not against the group's set.
C24_SavedDescriptorDecides ==
  [][ (last'.op = "verify" /\ DescriptorSaved(student)
         /\ last'.resp.compared) =>
        /\ last'.resp.usedStudentDescriptor
        /\ last'.resp.matchResult.distance =
             euclideanDistance(ProbeOf(last'.req), student.faceDescriptor)
    ]_vars

\* C24 as the code behaves: the saved descriptor decides exactly when it has
\* 128 components; a saved descriptor of any other length is passed over and
\* the attempt is decided against the group's set.
C24_SavedDescriptorOfLength128Decides ==
  [][ (last'.op = "verify" /\ DescriptorSaved(student)
         /\ last'.resp.compared) =>
        /\ last'.resp.usedStudentDescriptor
             <=> Len(student.faceDescriptor.v) = DescriptorLength
        /\ last'.resp.usedStudentDescriptor =>
             last'.resp.matchResult.distance =
               euclideanDistance(ProbeOf(last'.req), student.faceDescriptor)
        /\ ~last'.resp.usedStudentDescriptor =>
             \A m \in {findBestMatch(ProbeOf(last'.req),
                                     school.groupDescriptors,
                                     Num(last'.resp.threshold))} :
               /\ last'.resp.matchResult.match = m.match
               /\ last'.resp.matchResult.distance = m.distance
    ]_vars

\* a descriptor of two components was saved and the next attempt was decided
\* against the group's set
C24_Witness ==
  /\ last.op = "verify"
  /\ last.resp.compared
  /\ student.faceDescriptor = ShortProbe
  /\ ~last.resp.usedStudentDescriptor
  /\ student.dayVerification[1].result = "success"

(***************************************************************************)
(* Scopes of manual verification and reset                                 *)
(***************************************************************************)
\* the global scope of a student: verdict and manual-verification fields
GlobalScope(st) ==
  <<st.verified, st.verificationResult, st.manuallyVerified,
    st.manualVerificationDate>>

\* C25: a global manual verification and a global reset, with any request
\* options, leave all six day entries as they were; a manual verification for
\* day N leaves the global verdict, the global manually-verified flag and every
\* other day's entry as they were.
C25_ScopeIndependence ==
  [][ /\ (last'.op = "manualVerify" /\ last'.day = 0) =>
           student'.dayVerification = student.dayVerification
      /\ last'.op = "reset" =>
           student'.dayVerification = student.dayVerification
      /\ (last'.op = "manualVerify" /\ last'.day \in Days) =>
           /\ GlobalScope(student') = GlobalScope(student)
           /\ \A d \in Days \ {last'.day} :
                student'.dayVerification[d] = student.dayVerification[d]
    ]_vars

\* C25 as the code behaves: as above, except that a reset asked to clear the
\* day-1 photo rewrites the entry of day 1 (pending, the date of the reset, no
\* confidence) and leaves days 2..6 alone.
C25_ResetClearingDayOne ==
  [][ /\ (last'.op = "manualVerify" /\ last'.day = 0) =>
           student'.dayVerification = student.dayVerification
      /\ (last'.op = "reset"
            /\ ~(last'.req.clearDay1Photo /\ last'.resp.status = 200)) =>
           student'.dayVerification = student.dayVerification
      /\ (last'.op = "reset" /\ last'.req.clearDay1Photo
            /\ last'.resp.status = 200) =>
           /\ student'.dayVerification[1] =
                [result |-> "pending", date |-> now', confidence |-> 0]
           /\ student'.dayVerification[1] # student.dayVerification[1]
           /\ \A d \in Days \ {1} :
                student'.dayVerification[d] = student.dayVerification[d]
      /\ (last'.op = "manualVerify" /\ last'.day \in Days) =>
           /\ GlobalScope(student') = GlobalScope(student)
           /\ \A d \in Days \ {last'.day} :
                student'.dayVerification[d] = student.dayVerification[d]
    ]_vars

\* a global reset asked to clear the day-1 photo has rewritten day 1
C25_Witness ==
  /\ last.op = "reset"
  /\ last.req.clearDay1Photo
  /\ last.resp.status = 200
  /\ student.verificationResult = "pending"
  /\ student.dayVerification[1].date = now
  /\ now > 0

(***************************************************************************)
(* The global verdict and its flags                                        *)
(***************************************************************************)
\* C26: in every reachable state, after any sequence of verification attempts,
\* batch verifications, manual verifications, resets and bulk actions, verified
\* is true exactly when the global verdict is success or manually_verified.
C26_VerifiedFollowsVerdict ==
  /\ student.verified \in BOOLEAN
  /\ student.verificationResult \in Results
  /\ student.verified <=>
       student.verificationResult \in {"success", "manually_verified"}

\* a batch verification has failed a student on its second item, after
\* passing it on the first
C26_Witness ==
  /\ last.op = "batch"
  /\ last.resp.status = 200
  /\ Len(last.resp.results) = 2
  /\ last.resp.results[1].result = "success"
  /\ last.resp.results[2].result = "failed"
  /\ student.verificationResult = "failed"
  /\ ~student.verified

\* C27: in every reachable state manuallyVerified is true exactly when the
\* global verdict is manually_verified; a verification attempt after a manual
\* verification does not leave the flag true beside success or failed.
C27_ManualFlagFollowsVerdict ==
  student.manuallyVerified <=> student.verificationResult = "manually_verified"

\* C27 as the code behaves: a verdict of manually_verified always has the flag,
\* and the flag without that verdict is what a verification attempt (single or
\* batch) leaves behind: the verdict is then success or failed, and the date of
\* the manual verification is still stored.
C27_ManualFlagOutlivesVerdict ==
  /\ student.verificationResult = "manually_verified" => student.manuallyVerified
  /\ (student.manuallyVerified
        /\ student.verificationResult # "manually_verified") =>
       /\ student.verificationResult \in {"success", "failed"}
       /\ student.manualVerificationDate > 0
  /\ student.verificationResult = "pending" => ~student.manuallyVerified

\* a verification attempt has failed a manually verified student
C27_Witness ==
  /\ last.op = "verify"
  /\ last.resp.compared
  /\ student.verificationResult = "failed"
  /\ student.manuallyVerified

(***************************************************************************)
(* Regeneration comes to an end                                            *)
(***************************************************************************)
GroupProcessing == school.groupDescriptorsStatus = "processing"
GroupSettled == school.groupDescriptorsStatus \in {"ready", "error"}

\* C28: whenever the school's status is processing (set by an accepted
\* regeneration request or by the creation of a school with a group photo) it
\* is ready or error at some later time, the event loop running every
\* scheduled callback; the status is never left at processing for ever.
C28_ProcessingEnds == GroupProcessing ~> GroupSettled

\* C28 as the code behaves: the status leaves processing whenever an
\* extraction callback is scheduled, whatever the download and the extraction
\* do; every scheduled callback runs.
C28_ScheduledExtractionEnds ==
  /\ (GroupProcessing /\ Scheduled # {}) ~> GroupSettled
  /\ (Scheduled # {}) ~> (Scheduled = {})

\* the client-driven handler has marked the school as processing and no
\* callback is scheduled
C28_Witness ==
  /\ last.op = "clientRegenerate"
  /\ last.resp.status = 202
  /\ GroupProcessing
  /\ Scheduled = {}

(***************************************************************************)
(* Batch verification against single verification                          *)
(***************************************************************************)
\* the request the single endpoint would get for one item of a batch
SingleRequest(verification, schoolId) ==
  VerifyBody(Undefined, verification.capturedImage, schoolId, NoNum)

\* the items of a batch handled one after the other by the single endpoint;
\* acc = [student, replies]
RECURSIVE singleLoop(_, _, _, _, _)
singleLoop(sc, schoolId, verifications, i, acc) ==
  IF i > Len(verifications) THEN acc
  ELSE
    Only({ singleLoop(sc, schoolId, verifications, i + 1,
                      [student |-> o.student,
                       replies |-> Append(acc.replies, o.resp)]) :
           o \in {verifyHandler(acc.student, sc, verifications[i].studentId,
                                SingleRequest(verifications[i], schoolId))} })

EndsWithoutComparison(st, id, body) ==
  \/ body.schoolId = "none"
  \/ ~findStudent(st, id)
  \/ ~findSchool(body.schoolId)
  \/ /\ ~(body.descriptor.type = "array" /\ Len(body.descriptor.v) > 0)
     /\ body.capturedImage.kind # "face"

\* the items of a batch that reach the comparison and have a student to write
ComparedItems(st, verifications) ==
  SelectSeq(verifications,
            LAMBDA v : v.capturedImage.kind = "face"
                       /\ findStudent(st, v.studentId))

\* C30: a verification attempt that ends without a comparison (probe or school
\* id missing, student or group unknown, no face detected, extraction failed)
\* leaves the student as it was, global verdict, verified flag, confidence and
\* all six day entries included; in the batch endpoint the student is left as
\* the items that were compared leave it.
C30_NoComparisonNoWrite ==
  [][ /\ (last'.op = "verify"
            /\ EndsWithoutComparison(student, last'.id, last'.req)) =>
           /\ ~last'.resp.compared
           /\ student' = student
      /\ last'.op = "batch" =>
           /\ student' =
                batchHandler(student, school,
                             BatchBody(ComparedItems(student,
                                                     last'.req.verifications),
                                       last'.req.schoolId)).student
           /\ ComparedItems(student, last'.req.verifications) = <<>> =>
                student' = student
           /\ student'.dayVerification = student.dayVerification
           /\ storedConfidence(student') = storedConfidence(student)
    ]_vars

\* the second item of a batch showed no face and has left the verdict the
\* first item wrote
C30_Witness ==
  /\ last.op = "batch"
  /\ last.resp.status = 200
  /\ Len(last.resp.results) = 2
  /\ last.resp.results[1].written
  /\ last.resp.results[1].result = "success"
  /\ ~last.resp.results[2].written
  /\ last.resp.results[2].result = "failed"
  /\ student.verificationResult = "success"
  /\ student.verified

====
